---- MODULE Spec2Model ----
(***************************************************************************)
(* OTC options calculator: Garman-Kohlhagen pricing engine, implied        *)
(* volatility solver, Flask request handlers and the multi-source market   *)
(* data fetcher.                                                           *)
(*                                                                         *)
(* Real numbers are fixed-point integers with six decimals (one unit is    *)
(* 1e-6).  Products and quotients are computed digit-wise so that no       *)
(* intermediate value leaves the 32-bit range of the model checker.        *)
(***************************************************************************)
EXTENDS Integers, Sequences, FiniteSets, TLC

(***************************************************************************)
(* Fixed-point arithmetic                                                  *)
(***************************************************************************)
Scale == 1000 * 1000

\* largest magnitude a quotient may take before it saturates (2000.0)
Cap == 2000 * Scale

\* the value of e, computed once and handed to F
With(e, F(_)) == CHOOSE r \in {F(v) : v \in {e}} : TRUE

Abs(x) == With(x, LAMBDA v : IF v < 0 THEN -v ELSE v)

Sgn(x) == With(x, LAMBDA v : IF v < 0 THEN -1 ELSE IF v > 0 THEN 1 ELSE 0)

Max(a, b) == With(a, LAMBDA x : With(b, LAMBDA y : IF x >= y THEN x ELSE y))

Min(a, b) == With(a, LAMBDA x : With(b, LAMBDA y : IF x <= y THEN x ELSE y))

\* a * b for a, b >= 0, by halves of three decimals each
MulAbs(a, b) ==
    With(a, LAMBDA x : With(b, LAMBDA y :
        With((x \div 1000) * (y % 1000) + (x % 1000) * (y \div 1000),
             LAMBDA mid :
                (x \div 1000) * (y \div 1000) + (mid \div 1000)
                + (((mid % 1000) * 1000 + (x % 1000) * (y % 1000)) \div Scale))))

\* a * b
Mul(a, b) ==
    With(a, LAMBDA x : With(b, LAMBDA y :
        Sgn(x) * Sgn(y) * MulAbs(Abs(x), Abs(y))))

RECURSIVE DivDigits(_, _, _, _)
\* n more decimals of r / b, appended to acc
DivDigits(r, b, n, acc) ==
    IF n = 0 THEN acc
    ELSE With(r * 10, LAMBDA t :
            With(acc * 10 + (t \div b), LAMBDA q :
                DivDigits(t % b, b, n - 1, q)))

\* a / b for a >= 0, b > 0, saturating at 2000.0
DivAbs(a, b) ==
    With(a, LAMBDA x : With(b, LAMBDA y :
        IF x \div y >= 2000 THEN Cap
        ELSE (x \div y) * Scale + DivDigits(x % y, y, 6, 0)))

\* a / b for b # 0, saturating at +-2000.0
Div(a, b) ==
    With(a, LAMBDA x : With(b, LAMBDA y :
        Sgn(x) * Sgn(y) * DivAbs(Abs(x), Abs(y))))

\* a / n for a plain number n # 0
DivInt(a, n) ==
    With(a, LAMBDA x : Sgn(x) * Sgn(n) * (Abs(x) \div Abs(n)))

RECURSIVE SqrtSearch(_, _, _)
\* the least s in (lo, hi] with s * s >= x
SqrtSearch(x, lo, hi) ==
    IF hi - lo <= 1 THEN hi
    ELSE With((lo + hi) \div 2, LAMBDA m :
            IF MulAbs(m, m) >= x THEN SqrtSearch(x, lo, m)
            ELSE SqrtSearch(x, m, hi))

\* np.sqrt(x) for 0 <= x < 2000.0
Sqrt(x) ==
    With(x, LAMBDA v : IF v = 0 THEN 0 ELSE SqrtSearch(v, 0, 45 * Scale))

RECURSIVE ExpSeries(_, _, _, _)
\* acc + the terms f^k / k! from the k-th on, given term = f^(k-1) / (k-1)!
ExpSeries(f, k, term, acc) ==
    IF k > 12 \/ term = 0 THEN acc
    ELSE With(Mul(term, f) \div k, LAMBDA t :
            With(acc + t, LAMBDA a : ExpSeries(f, k + 1, t, a)))

RECURSIVE ExpTimes(_, _, _)
\* v * c^n
ExpTimes(v, c, n) ==
    IF n = 0 \/ v = 0 THEN v
    ELSE With(Mul(v, c), LAMBDA w : ExpTimes(w, c, n - 1))

\* np.exp(z), saturating at 2000.0
Exp(z) ==
    With(z, LAMBDA v :
        With(ExpSeries(Abs(v) % Scale, 1, Scale, Scale), LAMBDA ef :
            IF v >= 0
            THEN IF Abs(v) \div Scale >= 8 THEN Cap
                 ELSE Min(Cap, ExpTimes(ef, 2718282, Abs(v) \div Scale))
            ELSE With(Div(Scale, ef), LAMBDA inv :
                    ExpTimes(inv, 367879, Abs(v) \div Scale))))

RECURSIVE LnSeries(_, _, _, _)
\* acc + the terms w^k / k of the odd k from the k-th on, given pow = w^k
LnSeries(w2, k, pow, acc) ==
    IF k > 15 \/ pow = 0 THEN acc
    ELSE With(Mul(pow, w2), LAMBDA p :
            With(acc + (pow \div k), LAMBDA a : LnSeries(w2, k + 2, p, a)))

RECURSIVE LnPos(_)
LnPos(y) ==
    IF y > 1500000 THEN With(y \div 2, LAMBDA h : LnPos(h)) + 693147
    ELSE IF y < 750000 THEN With(y * 2, LAMBDA d : LnPos(d)) - 693147
    ELSE With(Div(y - Scale, y + Scale), LAMBDA w :
            With(Mul(w, w), LAMBDA w2 : 2 * LnSeries(w2, 1, w, 0)))

\* np.log(y) for y > 0
Ln(y) == With(y, LAMBDA v : LnPos(v))

\* scipy.stats.norm.pdf(x)
NormPdf(x) ==
    With(x, LAMBDA v :
        IF Abs(v) >= 6 * Scale THEN 0
        ELSE Mul(398942, Exp(-(Mul(v, v) \div 2))))

\* the polynomial in t = 1 / (1 + 0.2316419 x) of the normal tail
TailPoly(t) ==
    With(t, LAMBDA t1 : With(Mul(t1, t1), LAMBDA t2 :
        With(Mul(t2, t1), LAMBDA t3 : With(Mul(t3, t1), LAMBDA t4 :
            Mul(319382, t1) - Mul(356564, t2) + Mul(1781478, t3)
            - Mul(1821256, t4) + Mul(1330274, Mul(t4, t1))))))

\* scipy.stats.norm.cdf(x) for x >= 0
NormCdfPos(x) ==
    With(x, LAMBDA v :
        IF v >= 6 * Scale THEN Scale
        ELSE Max(Scale \div 2,
                 Min(Scale,
                     Scale - Mul(NormPdf(v),
                                 TailPoly(Div(Scale, Scale + Mul(231642, v)))))))

\* scipy.stats.norm.cdf(x)
NormCdf(x) ==
    With(x, LAMBDA v : IF v >= 0 THEN NormCdfPos(v) ELSE Scale - NormCdfPos(-v))

\* round(x, nd): Python rounds half to even
Round(x, nd) ==
    With(x, LAMBDA v :
        With(IF nd >= 6 THEN 1 ELSE IF nd = 4 THEN 100
             ELSE IF nd = 2 THEN 10000 ELSE Scale, LAMBDA u :
            With(Abs(v) \div u, LAMBDA q :
                With(Abs(v) % u, LAMBDA r :
                    Sgn(v) * u
                    * (IF (2 * r > u) \/ (2 * r = u /\ q % 2 = 1)
                       THEN q + 1 ELSE q)))))

(***************************************************************************)
(* Pricing engine (pricing/black_scholes.py).  A call of an engine         *)
(* function yields a record: err names the exception it raised ("none"     *)
(* when it returned), nan tells that the returned float is NaN.            *)
(***************************************************************************)
Ok(v) == [err |-> "none", nan |-> FALSE, val |-> v]

NaN == [err |-> "none", nan |-> TRUE, val |-> 0]

Raise(e) == [err |-> e, nan |-> FALSE, val |-> 0]

\* np.log(S / K): S / K divides two Python floats, np.log of a negative
\* number is NaN and np.log(0.0) is -inf
LogRatio(S, K) ==
    IF K = 0 THEN Raise("ZeroDivisionError")
    ELSE IF S = 0 THEN Ok(-Cap)
    ELSE IF Sgn(S) # Sgn(K) THEN NaN
    ELSE Ok(Ln(Max(1, DivAbs(Abs(S), Abs(K)))))

\* d1 of the Garman-Kohlhagen formula, for T > 0 and sigma > 0
D1(lnSK, T, r_d, r_f, sigma) ==
    With(lnSK, LAMBDA l :
        IF l = -Cap THEN -Cap
        ELSE With(Mul(sigma, Sqrt(T)), LAMBDA den :
                Div(l + Mul(r_d - r_f + (Mul(sigma, sigma) \div 2), T),
                    IF den = 0 THEN 1 ELSE den)))

D2(d1, T, sigma) ==
    With(d1, LAMBDA d : IF d = -Cap THEN -Cap ELSE d - Mul(sigma, Sqrt(T)))

\* the value at or past expiry
intrinsic_value(S, K, option_type) ==
    IF option_type = "call" THEN Ok(Max(S - K, 0)) ELSE Ok(Max(K - S, 0))

\* a put priced with the carry rates exchanged
gk_closed_form_swapped(S, K, T, r_d, r_f, sigma, option_type) ==
    With(LogRatio(S, K), LAMBDA l :
        IF l.err # "none" THEN l
        ELSE IF l.nan THEN NaN
        ELSE With(D1(l.val, T, r_d, r_f, sigma), LAMBDA d1 :
             With(D2(d1, T, sigma), LAMBDA d2 :
                IF option_type = "call"
                THEN Ok(Mul(Mul(S, Exp(-Mul(r_f, T))), NormCdf(d1))
                        - Mul(Mul(K, Exp(-Mul(r_d, T))), NormCdf(d2)))
                ELSE Ok(Mul(Mul(K, Exp(-Mul(r_f, T))), NormCdf(-d2))
                        - Mul(Mul(S, Exp(-Mul(r_d, T))), NormCdf(-d1))))))

\* the Garman-Kohlhagen price for T > 0 and sigma > 0
gk_closed_form(S, K, T, r_d, r_f, sigma, option_type) ==
    With(LogRatio(S, K), LAMBDA l :
        IF l.err # "none" THEN l
        ELSE IF l.nan THEN NaN
        ELSE With(D1(l.val, T, r_d, r_f, sigma), LAMBDA d1 :
             With(D2(d1, T, sigma), LAMBDA d2 :
                IF option_type = "call"
                THEN Ok(Mul(Mul(S, Exp(-Mul(r_f, T))), NormCdf(d1))
                        - Mul(Mul(K, Exp(-Mul(r_d, T))), NormCdf(d2)))
                ELSE Ok(Mul(Mul(K, Exp(-Mul(r_d, T))), NormCdf(-d2))
                        - Mul(Mul(S, Exp(-Mul(r_f, T))), NormCdf(-d1))))))

\* gk_price without the volatility check
gk_price_unchecked(S, K, T, r_d, r_f, sigma, option_type) ==
    IF T <= 0 THEN intrinsic_value(S, K, option_type)
    ELSE gk_closed_form(S, K, T, r_d, r_f, sigma, option_type)

\* gk_price taking the expiry branch only past expiry
gk_price_past_expiry(S, K, T, r_d, r_f, sigma, option_type) ==
    IF T < 0 THEN intrinsic_value(S, K, option_type)
    ELSE IF sigma <= 0 THEN Raise("ValueError")
    ELSE gk_closed_form(S, K, T, r_d, r_f, sigma, option_type)

gk_price(S, K, T, r_d, r_f, sigma, option_type) ==
    IF T <= 0 THEN intrinsic_value(S, K, option_type)
    ELSE IF sigma <= 0 THEN Raise("ValueError")
    ELSE gk_closed_form(S, K, T, r_d, r_f, sigma, option_type)

GreeksOf(e, n, delta, gamma, vega, theta, rho_d, rho_f) ==
    [err |-> e, nan |-> n, delta |-> delta, gamma |-> gamma, vega |-> vega,
     theta |-> theta, rho_d |-> rho_d, rho_f |-> rho_f]

\* expiry Greeks that count an at-the-money option as in the money
greeks_at_expiry_atm(S, K, option_type) ==
    LET intrinsic_call == S >= K
        intrinsic_put == S <= K
    IN  GreeksOf("none", FALSE,
                 IF option_type = "call" /\ intrinsic_call THEN Scale
                 ELSE IF option_type = "put" /\ intrinsic_put THEN -Scale
                 ELSE 0,
                 0, 0, 0, 0, 0)

\* the Greeks at or past expiry
greeks_at_expiry(S, K, option_type) ==
    LET intrinsic_call == S > K
        intrinsic_put == S < K
    IN  GreeksOf("none", FALSE,
                 IF option_type = "call" /\ intrinsic_call THEN Scale
                 ELSE IF option_type = "put" /\ intrinsic_put THEN -Scale
                 ELSE 0,
                 0, 0, 0, 0, 0)

\* the intermediate values shared by the Greeks of calls and puts
greeks_terms(S, K, T, r_d, r_f, sigma, lnSK) ==
    With(Sqrt(T), LAMBDA sqrt_T :
    With(D1(lnSK, T, r_d, r_f, sigma), LAMBDA d1 :
    With(NormPdf(d1), LAMBDA nd1 :
    With(Exp(-Mul(r_f, T)), LAMBDA exp_rf :
    With(Mul(Mul(S, sigma), sqrt_T), LAMBDA den :
        [d1 |-> d1,
         d2 |-> D2(d1, T, sigma),
         exp_rf |-> exp_rf,
         exp_rd |-> Exp(-Mul(r_d, T)),
         gamma |-> Div(Mul(exp_rf, nd1), IF den = 0 THEN 1 ELSE den),
         vega_raw |-> Mul(Mul(Mul(S, exp_rf), nd1), sqrt_T),
         decay |-> -Div(Mul(Mul(Mul(S, sigma), exp_rf), nd1),
                        Max(1, 2 * sqrt_T))])))))

\* the Greeks for T > 0
greeks_closed_form(S, K, T, r_d, r_f, sigma, option_type) ==
    With(LogRatio(S, K), LAMBDA l :
        IF l.err # "none"
        THEN GreeksOf(l.err, FALSE, 0, 0, 0, 0, 0, 0)
        ELSE IF l.nan \/ sigma = 0 \/ S = 0
        THEN GreeksOf("none", TRUE, 0, 0, 0, 0, 0, 0)
        ELSE With(greeks_terms(S, K, T, r_d, r_f, sigma, l.val), LAMBDA g :
            IF option_type = "call"
            THEN With(NormCdf(g.d1), LAMBDA Nd1 :
                 With(NormCdf(g.d2), LAMBDA Nd2 :
                    GreeksOf("none", FALSE,
                        Mul(g.exp_rf, Nd1),
                        g.gamma,
                        g.vega_raw \div 100,
                        (g.decay + Mul(Mul(Mul(r_f, S), g.exp_rf), Nd1)
                                 - Mul(Mul(Mul(r_d, K), g.exp_rd), Nd2))
                            \div 365,
                        Mul(Mul(Mul(K, T), g.exp_rd), Nd2) \div 100,
                        (-Mul(Mul(Mul(S, T), g.exp_rf), Nd1)) \div 100)))
            ELSE With(NormCdf(-g.d1), LAMBDA Nmd1 :
                 With(NormCdf(-g.d2), LAMBDA Nmd2 :
                    GreeksOf("none", FALSE,
                        -Mul(g.exp_rf, Nmd1),
                        g.gamma,
                        g.vega_raw \div 100,
                        (g.decay - Mul(Mul(Mul(r_f, S), g.exp_rf), Nmd1)
                                 + Mul(Mul(Mul(r_d, K), g.exp_rd), Nmd2))
                            \div 365,
                        (-Mul(Mul(Mul(K, T), g.exp_rd), Nmd2)) \div 100,
                        Mul(Mul(Mul(S, T), g.exp_rf), Nmd1) \div 100)))))

gk_greeks(S, K, T, r_d, r_f, sigma, option_type) ==
    IF T <= 0 THEN greeks_at_expiry(S, K, option_type)
    ELSE greeks_closed_form(S, K, T, r_d, r_f, sigma, option_type)

breakeven_spot(K, premium_per_unit, option_type) ==
    IF option_type = "call" THEN K + premium_per_unit ELSE K - premium_per_unit

(***************************************************************************)
(* Request inputs                                                          *)
(***************************************************************************)
MaxDays == 182

MaxNotional == 100

Spots == {-1080000, 0, 1080000, 1100000, 1250000}

Strikes == {0, 1100000}

VolPcts == {-10, 0, 12}

RatePcts == {1, 3}

Notionals == {-2, 0, MaxNotional}

DayDiffs == {-1, 0, 30, MaxDays}

DayCounts == {"ACT/360", "ACT/365"}

OptionTypes == {"call", "put"}

\* total market premium of the request; 0 stands for a missing or blank field
MarketPremiums == {0, 5000000}

\* how the request body parses: a non-numeric number and a malformed date
\* raise ValueError, a missing field raises KeyError
ParseOutcomes == {"ok", "bad_number", "bad_date", "missing_field"}

(***************************************************************************)
(* Responses                                                               *)
(***************************************************************************)
NoResp == [status |-> 0, error |-> "", has_result |-> FALSE]

ErrorResp(code, msg) == [status |-> code, error |-> msg, has_result |-> FALSE]

\* the except clauses of a handler: ValueError is a 400, anything else a 500
Except(e) ==
    IF e = "ValueError" THEN ErrorResp(400, "ValueError")
    ELSE ErrorResp(500, e)

\* T = days_to_expiry / day_base
YearFraction(days, day_count) ==
    Div(days, IF day_count = "ACT/360" THEN 360 ELSE 365)

(***************************************************************************)
(* app.calculate                                                           *)
(***************************************************************************)
\* q * 100, saturating at +-2000.0
Times100(q) ==
    With(q, LAMBDA v : IF Abs(v) >= Cap \div 100 THEN Sgn(v) * Cap ELSE v * 100)

Moneyness(S, K, option_type) ==
    With(IF option_type = "call" THEN Times100(Div(S - K, K))
         ELSE Times100(Div(K - S, K)), LAMBDA pct :
        [pct |-> Round(pct, 2),
         label |-> IF Abs(pct) < Scale THEN "ATM"
                   ELSE IF pct > 0 THEN "ITM" ELSE "OTM"])

Comparison(mp, notional, total_premium, total_nan) ==
    LET diff == mp - total_premium
    IN  [market_premium |-> mp,
         market_unit_price |-> DivInt(mp, notional),
         difference |-> IF total_nan THEN 0 ELSE diff,
         difference_pct |-> IF ~total_nan /\ total_premium > 0
                            THEN Times100(Div(diff, total_premium)) ELSE 0,
         assessment |-> IF total_nan THEN "Fair"
                        ELSE IF diff > 0 THEN "Overpriced"
                        ELSE IF diff < 0 THEN "Underpriced" ELSE "Fair"]

\* the result fields of the 200 response
CalcResult(data, T, price, greeks) ==
    With(price.val * data.notional, LAMBDA total_premium :
        [status |-> 200, error |-> "", has_result |-> TRUE,
         nan |-> price.nan \/ greeks.nan,
         price_per_unit |-> Round(price.val, 6),
         total_premium |-> Round(total_premium, 2),
         days_to_expiry |-> data.days,
         T |-> Round(T, 6),
         greeks_unit |-> greeks,
         breakeven_spot |->
             Round(breakeven_spot(data.strike, price.val, data.option_type), 4),
         moneyness |-> Moneyness(data.spot, data.strike, data.option_type),
         has_comparison |-> data.market_premium # 0,
         comparison |-> IF data.market_premium # 0
                        THEN Comparison(data.market_premium, data.notional,
                                        total_premium, price.nan)
                        ELSE Comparison(0, 1, 0, FALSE)])

\* calculate from the call of gk_price on
calculate_priced(data, T, r_d, r_f, sigma) ==
    With(gk_price(data.spot, data.strike, T, r_d, r_f, sigma, data.option_type),
         LAMBDA price :
        IF price.err # "none"
        THEN [resp |-> Except(price.err), calls |-> <<"gk_price">>]
        ELSE With(gk_greeks(data.spot, data.strike, T, r_d, r_f, sigma,
                            data.option_type),
                  LAMBDA greeks :
            IF greeks.err # "none"
            THEN [resp |-> Except(greeks.err),
                  calls |-> <<"gk_price", "gk_greeks">>]
            ELSE IF data.strike = 0
                    \/ (data.market_premium # 0 /\ data.notional = 0)
            THEN [resp |-> Except("ZeroDivisionError"),
                  calls |-> <<"gk_price", "gk_greeks", "breakeven_spot">>]
            ELSE [resp |-> CalcResult(data, T, price, greeks),
                  calls |-> <<"gk_price", "gk_greeks", "breakeven_spot">>]))

\* the response of calculate and the engine calls it made
calculate(data) ==
    IF data.parse = "bad_number" \/ data.parse = "bad_date"
    THEN [resp |-> Except("ValueError"), calls |-> <<>>]
    ELSE IF data.parse = "missing_field"
    THEN [resp |-> Except("KeyError"), calls |-> <<>>]
    ELSE IF data.days < 0
    THEN [resp |-> ErrorResp(400, "Expiry date must be after valuation date"),
          calls |-> <<>>]
    ELSE With(YearFraction(data.days, data.day_count), LAMBDA T :
            calculate_priced(data, T,
                             (data.rate_domestic * Scale) \div 100,
                             (data.rate_foreign * Scale) \div 100,
                             (data.volatility * Scale) \div 100))

CalculateRequests ==
    [parse : {"ok"}, spot : Spots, strike : Strikes, volatility : VolPcts,
     rate_domestic : RatePcts, rate_foreign : RatePcts, notional : Notionals,
     option_type : OptionTypes, days : DayDiffs, day_count : DayCounts,
     market_premium : MarketPremiums]
    \cup
    [parse : ParseOutcomes \ {"ok"}, spot : {1080000}, strike : {1100000},
     volatility : {12}, rate_domestic : {3}, rate_foreign : {1},
     notional : {MaxNotional}, option_type : {"call"}, days : {30},
     day_count : {"ACT/365"}, market_premium : {0}]

(***************************************************************************)
(* Market data (market_data/fetcher.py).  Quotes and rates are carried in  *)
(* ticks of 1e-7, one decimal below the six that round(x, 6) keeps.        *)
(***************************************************************************)
Tick == 10 * Scale

\* Python's None where a number is expected, and a number
None == [some |-> FALSE, v |-> 0]

Some(x) == [some |-> TRUE, v |-> x]

\* a provenance string is the tuple of its parts; None has no part
NoSrc == <<>>

\* a JSON value: null (or a missing key), a number, a non-empty string
JNull == [t |-> "null", v |-> 0]

JNum(x) == [t |-> "num", v |-> x]

JStr == [t |-> "str", v |-> 0]

\* the truth value Python gives a JSON value
Truthy(j) == j.t = "str" \/ (j.t = "num" /\ j.v # 0)

\* round(x, nd) of a number of ticks: Python rounds half to even
round(x, nd) ==
    With(x, LAMBDA v :
        With(IF nd = 6 THEN 10 ELSE IF nd = 4 THEN 1000 ELSE 100000, LAMBDA u :
            With(Abs(v) \div u, LAMBDA q :
                With(Abs(v) % u, LAMBDA r :
                    Sgn(v) * u
                    * (IF (2 * r > u) \/ (2 * r = u /\ q % 2 = 1)
                       THEN q + 1 ELSE q)))))

\* a / b in ticks for b # 0, saturating at +-200.0
TickDiv(a, b) ==
    With(Abs(a), LAMBDA x : With(Abs(b), LAMBDA y :
        Sgn(a) * Sgn(b)
        * (IF x \div y >= 200 THEN 200 * Tick
           ELSE (x \div y) * Tick + DivDigits(x % y, y, 7, 0))))

\* what a function of the fetcher hands back: the exception it raised
\* ("none" when it returned), the value and provenance it returned, and
\* the outbound requests it made, in order
Returned(val, src, asked) ==
    [raised |-> "none", val |-> val, src |-> src, asked |-> asked]

Raised(e, asked) ==
    [raised |-> e, val |-> None, src |-> NoSrc, asked |-> asked]

\* one outbound request: the symbol or series asked, the outcome of the call
\* and the reply itself
Asked(sym, reply) == [sym |-> sym, kind |-> reply.kind, reply |-> reply]

\* the replies of the Yahoo chart endpoint to a quote request
QuoteFailures == {"timeout", "http_error", "no_result", "no_meta"}

QuotePrices ==
    {JNull, JNum(0), JNum(4), JNum(10800000), JNum(205000000), JStr}

QuoteReplies ==
    [kind : QuoteFailures, price : {JNull}] \cup [kind : {"price"}, price : QuotePrices]

\* the reply that stands for a request that is not made
NotAsked == [kind |-> "not_asked", price |-> JNull]

\* _yahoo_quote: whatever regularMarketPrice holds, None on any failure
_yahoo_quote(reply) ==
    IF reply.kind = "price" THEN reply.price ELSE JNull

_METAL_FUTURES ==
    [b \in {"XAG", "XAU", "XPT", "XPD"} |->
        CASE b = "XAG" -> "SI=F"
          [] b = "XAU" -> "GC=F"
          [] b = "XPT" -> "PL=F"
          [] OTHER -> "PA=F"]

\* the metal branch of fetch_spot: futures quote, crossed through QUOTEUSD=X
fetch_spot_metal(base, quote, reply1, reply2) ==
    With(_METAL_FUTURES[base], LAMBDA ticker :
    With(_yahoo_quote(reply1), LAMBDA metal_usd :
    With(<<Asked(ticker, reply1)>>, LAMBDA first :
        IF metal_usd = JNull THEN Returned(None, NoSrc, first)
        ELSE IF quote = "USD"
        THEN IF metal_usd.t # "num" THEN Raised("TypeError", first)
             ELSE Returned(Some(round(metal_usd.v, 6)), <<ticker>>, first)
        ELSE With(quote \o "USD=X", LAMBDA fx_ticker :
             With(_yahoo_quote(reply2), LAMBDA quote_usd :
             With(Append(first, Asked(fx_ticker, reply2)), LAMBDA both :
                IF Truthy(quote_usd)
                THEN IF metal_usd.t # "num" \/ quote_usd.t # "num"
                     THEN Raised("TypeError", both)
                     ELSE Returned(Some(round(TickDiv(metal_usd.v, quote_usd.v), 6)),
                                   <<ticker, " / ", fx_ticker>>, both)
                ELSE Returned(None, NoSrc, both)))))))

\* fetch_spot_fx with a provenance that names the exhausted chain
fetch_spot_fx_exhausted(base, quote, reply1, reply2) ==
    With(base \o quote \o "=X", LAMBDA ticker :
    With(_yahoo_quote(reply1), LAMBDA direct :
    With(<<Asked(ticker, reply1)>>, LAMBDA first :
        IF Truthy(direct)
        THEN IF direct.t # "num" THEN Raised("TypeError", first)
             ELSE Returned(Some(round(direct.v, 6)), <<ticker>>, first)
        ELSE With(quote \o base \o "=X", LAMBDA inv_ticker :
             With(_yahoo_quote(reply2), LAMBDA inverse :
             With(Append(first, Asked(inv_ticker, reply2)), LAMBDA both :
                IF Truthy(inverse)
                THEN IF inverse.t # "num" THEN Raised("TypeError", both)
                     ELSE Returned(Some(round(TickDiv(Tick, inverse.v), 6)),
                                   <<"1 / ", inv_ticker>>, both)
                ELSE Returned(None, <<"no source available">>, both)))))))

\* the currency branch of fetch_spot: direct ticker, then the inverse
fetch_spot_fx(base, quote, reply1, reply2) ==
    With(base \o quote \o "=X", LAMBDA ticker :
    With(_yahoo_quote(reply1), LAMBDA direct :
    With(<<Asked(ticker, reply1)>>, LAMBDA first :
        IF Truthy(direct)
        THEN IF direct.t # "num" THEN Raised("TypeError", first)
             ELSE Returned(Some(round(direct.v, 6)), <<ticker>>, first)
        ELSE With(quote \o base \o "=X", LAMBDA inv_ticker :
             With(_yahoo_quote(reply2), LAMBDA inverse :
             With(Append(first, Asked(inv_ticker, reply2)), LAMBDA both :
                IF Truthy(inverse)
                THEN IF inverse.t # "num" THEN Raised("TypeError", both)
                     ELSE Returned(Some(round(TickDiv(Tick, inverse.v), 6)),
                                   <<"1 / ", inv_ticker>>, both)
                ELSE Returned(None, NoSrc, both)))))))

fetch_spot(base, quote, reply1, reply2) ==
    IF base \in DOMAIN _METAL_FUTURES
    THEN fetch_spot_metal(base, quote, reply1, reply2)
    ELSE fetch_spot_fx(base, quote, reply1, reply2)

\* the replies of the ECB data API: the OBS_VALUE cell is a percentage
EcbFailures == {"timeout", "http_error", "one_line", "no_column", "not_a_number"}

EcbValues == {-5000000, 0, 24000000, 250000000}

EcbReplies ==
    [kind : EcbFailures, value : {0}] \cup [kind : {"value"}, value : EcbValues]

\* _ecb_csv_rate: the last observation as a decimal, None unless in [0, 0.20]
_ecb_csv_rate(reply) ==
    IF reply.kind # "value" THEN None
    ELSE With(DivInt(reply.value, 100), LAMBDA rate :
            IF 0 <= rate /\ rate <= Tick \div 5 THEN Some(rate) ELSE None)

\* a line of the Bank of England CSV: too few columns, a last column that
\* is not a number, or a last column holding a percentage
BoeLines ==
    {[parts |-> 1, num |-> FALSE, value |-> 0],
     [parts |-> 2, num |-> FALSE, value |-> 0],
     [parts |-> 2, num |-> TRUE, value |-> 40000000],
     [parts |-> 2, num |-> TRUE, value |-> 250000000]}

BoeReplies ==
    [kind : {"timeout", "http_error"}, lines : {<<>>}]
    \cup [kind : {"lines"},
          lines : {<<l>> : l \in BoeLines} \cup (BoeLines \X BoeLines)]

RECURSIVE boe_scan(_, _)
\* for line in reversed(lines): the first rate within [0, 20]
boe_scan(lines, i) ==
    IF i = 0 THEN None
    ELSE With(lines[i], LAMBDA line :
            IF line.parts >= 2 /\ line.num
               /\ 0 <= line.value /\ line.value <= 20 * Tick
            THEN Some(DivInt(line.value, 100))
            ELSE boe_scan(lines, i - 1))

_boe_bank_rate(reply) ==
    IF reply.kind # "lines" THEN None
    ELSE boe_scan(reply.lines, Len(reply.lines))

\* defaults.get(currency)
defaults(currency) ==
    CASE currency = "EUR" -> Some(250000)
      [] currency = "USD" -> Some(450000)
      [] currency = "GBP" -> Some(400000)
      [] currency \in {"CHF", "JPY"} -> Some(50000)
      [] OTHER -> None

\* the replies of the Yahoo chart endpoint for ^IRX, a yield in percent
IrxReplies ==
    [kind : QuoteFailures, price : {JNull}]
    \cup [kind : {"price"},
          price : {JNull, JNum(0), JNum(45000000), JNum(250000000), JStr}]

\* the replies a call of fetch_risk_free_rate may need
NoRateReplies ==
    [ecb1 |-> [kind |-> "not_asked", value |-> 0],
     ecb2 |-> [kind |-> "not_asked", value |-> 0],
     irx |-> NotAsked,
     boe |-> [kind |-> "not_asked", lines |-> <<>>]]

RateReplies(currency) ==
    IF currency = "EUR"
    THEN {[NoRateReplies EXCEPT !.ecb1 = a, !.ecb2 = b] :
              a \in EcbReplies, b \in EcbReplies}
    ELSE IF currency = "USD"
    THEN {[NoRateReplies EXCEPT !.irx = q] : q \in IrxReplies}
    ELSE IF currency = "GBP"
    THEN {[NoRateReplies EXCEPT !.boe = b] : b \in BoeReplies}
    ELSE {NoRateReplies}

\* the EUR branch of fetch_risk_free_rate, then the shared default; "ESTR"
\* stands for the euro short-term rate, whose name the source spells with
\* the euro sign
rate_eur(replies) ==
    With(_ecb_csv_rate(replies.ecb1), LAMBDA estr :
        IF estr.some
        THEN Returned(estr, <<"ECB ESTR">>, <<Asked("EST", replies.ecb1)>>)
        ELSE With(_ecb_csv_rate(replies.ecb2), LAMBDA dfr :
             With(<<Asked("EST", replies.ecb1), Asked("DFR", replies.ecb2)>>,
                  LAMBDA both :
                IF dfr.some THEN Returned(dfr, <<"ECB DFR">>, both)
                ELSE Returned(defaults("EUR"), <<"default">>, both))))

rate_usd(replies) ==
    With(_yahoo_quote(replies.irx), LAMBDA irx :
    With(<<Asked("^IRX", replies.irx)>>, LAMBDA asked :
        IF irx = JNull THEN Returned(defaults("USD"), <<"default">>, asked)
        ELSE IF irx.t # "num" THEN Raised("TypeError", asked)
        ELSE With(DivInt(irx.v, 100), LAMBDA rate :
                IF 0 <= rate /\ rate <= Tick \div 5
                THEN Returned(Some(rate), <<"Yahoo ^IRX">>, asked)
                ELSE Returned(defaults("USD"), <<"default">>, asked))))

rate_gbp(replies) ==
    With(_boe_bank_rate(replies.boe), LAMBDA rate :
    With(<<Asked("IUDBEDR", replies.boe)>>, LAMBDA asked :
        IF rate.some THEN Returned(rate, <<"BoE Bank Rate">>, asked)
        ELSE Returned(defaults("GBP"), <<"default">>, asked)))

fetch_risk_free_rate(currency, replies) ==
    IF currency = "EUR" THEN rate_eur(replies)
    ELSE IF currency = "USD" THEN rate_usd(replies)
    ELSE IF currency = "GBP" THEN rate_gbp(replies)
    ELSE Returned(defaults(currency), <<"default">>, <<>>)

\* metal_lease_rates
metal_lease_rates ==
    [b \in {"XAG", "XAU", "XPT", "XPD"} |-> IF b = "XAU" THEN 20000 ELSE 50000]

\* the replies of the Yahoo chart endpoint to a history request.  The
\* closes are told by what the outlier filter sees of them: n closes, none
\* of which are null; of the daily log returns of the others, eq are
\* exactly 10% in absolute value and gt larger (or not finite); text, a
\* close that is not a number; vol, the annualised deviation of the
\* returns that survive
HistoryFailures == {"timeout", "http_error", "no_result", "no_quote"}

NoCloses ==
    [n |-> 0, none |-> 0, eq |-> 0, gt |-> 0, text |-> FALSE, vol |-> 0]

HistoryCloses ==
    {NoCloses}
    \cup [n : {14, 15, 16}, none : {0}, eq : {0, 1}, gt : {0, 5},
          text : {FALSE}, vol : {2512300}]
    \cup [n : {16}, none : {0}, eq : {0}, gt : {0}, text : BOOLEAN, vol : {0}]
    \cup [n : {16, 17}, none : {1, 3}, eq : {0}, gt : {0}, text : {FALSE},
          vol : {2512300}]

HistoryReplies ==
    [kind : HistoryFailures, closes : {NoCloses}]
    \cup [kind : {"closes"}, closes : HistoryCloses]

\* _yahoo_history: the closes that are not None, None on any failure
_yahoo_history(reply) ==
    IF reply.kind = "closes"
    THEN [some |-> TRUE,
          v |-> [reply.closes EXCEPT !.n = @ - reply.closes.none, !.none = 0]]
    ELSE [some |-> FALSE, v |-> NoCloses]

\* the filter with <= in place of <: a return of exactly 10% survives
fetch_historical_volatility_keeps_10(base, quote, reply) ==
    With(IF base \in DOMAIN _METAL_FUTURES THEN _METAL_FUTURES[base]
         ELSE base \o quote \o "=X", LAMBDA symbol :
    With(_yahoo_history(reply), LAMBDA closes :
    With(<<Asked(symbol, reply)>>, LAMBDA asked :
        IF ~closes.some \/ closes.v.n < 15 THEN Returned(None, NoSrc, asked)
        ELSE IF closes.v.text THEN Returned(None, NoSrc, asked)
        ELSE With(closes.v.n - 1, LAMBDA log_returns :
             With(log_returns - closes.v.gt, LAMBDA filtered :
             With(log_returns - filtered, LAMBDA n_filtered :
                IF filtered < 10 THEN Returned(None, NoSrc, asked)
                ELSE Returned(Some(round(closes.v.vol, 4)),
                              <<symbol, " (3mo, ", ToString(filtered), "pts">>
                              \o (IF n_filtered > 0
                                  THEN <<", ", ToString(n_filtered),
                                         " outliers removed">>
                                  ELSE <<>>)
                              \o <<")">>,
                              asked)))))))

fetch_historical_volatility(base, quote, reply) ==
    With(IF base \in DOMAIN _METAL_FUTURES THEN _METAL_FUTURES[base]
         ELSE base \o quote \o "=X", LAMBDA symbol :
    With(_yahoo_history(reply), LAMBDA closes :
    With(<<Asked(symbol, reply)>>, LAMBDA asked :
        IF ~closes.some \/ closes.v.n < 15 THEN Returned(None, NoSrc, asked)
        ELSE IF closes.v.text THEN Returned(None, NoSrc, asked)
        ELSE With(closes.v.n - 1, LAMBDA log_returns :
             With(log_returns - closes.v.eq - closes.v.gt, LAMBDA filtered :
             With(log_returns - filtered, LAMBDA n_filtered :
                IF filtered < 10 THEN Returned(None, NoSrc, asked)
                ELSE Returned(Some(round(closes.v.vol, 4)),
                              <<symbol, " (3mo, ", ToString(filtered), "pts">>
                              \o (IF n_filtered > 0
                                  THEN <<", ", ToString(n_filtered),
                                         " outliers removed">>
                                  ELSE <<>>)
                              \o <<")">>,
                              asked)))))))

(***************************************************************************)
(* The cached Yahoo session and fetch_slv_implied_vol                      *)
(***************************************************************************)
\* _yahoo_session is 0 for None, else the number of the Session object;
\* _yahoo_crumb names the session it was obtained through, sid 0 for None
NoCrumb == [sid |-> 0, text |-> ""]

Crumb(sid, text) == [sid |-> sid, text |-> text]

\* the body of the getcrumb reply, whose status is not looked at: a crumb,
\* nothing, or an error page
CrumbTexts == {"crumb", "", "Too Many Requests"}

SessionReplies ==
    [cookie : {"ok", "timeout"}, crumb : {"body", "timeout"}, text : CrumbTexts]

\* _get_yahoo_session for the globals (session, crumb): the pair handed
\* back, the globals left behind, the requests made
_get_yahoo_session(session, crumb, new_sid, reply) ==
    IF session # 0 /\ crumb.sid # 0
    THEN [session |-> session, crumb |-> crumb,
          g_session |-> session, g_crumb |-> crumb, asked |-> <<>>]
    ELSE IF reply.cookie = "timeout"
    THEN [session |-> 0, crumb |-> NoCrumb, g_session |-> 0,
          g_crumb |-> NoCrumb,
          asked |-> <<[sym |-> "fc.yahoo.com", kind |-> "timeout"]>>]
    ELSE IF reply.crumb = "timeout"
    THEN [session |-> 0, crumb |-> NoCrumb, g_session |-> 0,
          g_crumb |-> NoCrumb,
          asked |-> <<[sym |-> "fc.yahoo.com", kind |-> "ok"],
                      [sym |-> "getcrumb", kind |-> "timeout"]>>]
    ELSE With(Crumb(new_sid, reply.text), LAMBDA c :
            [session |-> new_sid, crumb |-> c,
             g_session |-> new_sid, g_crumb |-> c,
             asked |-> <<[sym |-> "fc.yahoo.com", kind |-> "ok"],
                         [sym |-> "getcrumb", kind |-> "body"]>>])

\* the replies to the request for the expiry dates of SLV: the price of
\* SLV and the expiries, in days from today
ListFailures ==
    {"timeout", "http_error", "bad_json", "no_result", "no_price",
     "no_expiries"}

ListReplies ==
    [kind : ListFailures, price : {0}, expiries : {<<>>}]
    \cup [kind : {"list"}, price : {200000000},
          expiries : {<<-2>>, <<25, 60>>, <<35, 25>>}]

\* int(target_T * 365) for target_T = days / 365.0: the float product
\* falls short of these day counts, and int() truncates it
TruncatedDays == {3, 6, 12, 24, 48, 53, 96, 101, 106}

target_days(target_T_days) ==
    IF target_T_days \in TruncatedDays THEN target_T_days - 1
    ELSE target_T_days

RECURSIVE closest_expiry(_, _, _, _)
\* the first expiry of the fewest days from the target, from the i-th on
closest_expiry(expiries, target, i, best) ==
    IF i > Len(expiries) THEN best
    ELSE closest_expiry(expiries, target, i + 1,
                        IF Abs(expiries[i] - target) < Abs(best - target)
                        THEN expiries[i] ELSE best)

\* the replies to the request for the option chain of one expiry: each call
\* has a strike, a last price and the volatility _bs_implied_vol finds for it
ChainFailures ==
    {"timeout", "http_error", "malformed", "no_options", "no_calls"}

Call(strike, last, iv) == [strike |-> strike, last |-> last, iv |-> iv]

Chains ==
    {<<Call(200000000, 12000000, Some(3100000)),
       Call(210000000, 8000000, Some(3500000)),
       Call(215000000, 7000000, Some(4000000))>>,
     <<Call(195000000, 15000000, Some(3300000)),
       Call(200000000, 12000000, Some(2900000)),
       Call(205000000, 9000000, Some(3600000))>>,
     <<Call(200000000, 5000000, Some(3100000)),
       Call(200000000, 12000000, None),
       Call(200000000, 12000000, Some(500000))>>,
     <<Call(200000000, 12000000, Some(30000000)),
       Call(200000000, 12000000, Some(0))>>}

ChainReplies ==
    [kind : ChainFailures, calls : {<<>>}] \cup [kind : {"calls"}, calls : Chains]

RECURSIVE atm_ivs(_, _, _)
\* the volatilities of the calls from the i-th on that trade above 0.5,
\* lie within 5% of the price of SLV and have a volatility in (0.05, 3.0)
atm_ivs(calls, slv_price, i) ==
    IF i > Len(calls) THEN <<>>
    ELSE With(calls[i], LAMBDA c :
            IF c.last <= Tick \div 2 THEN atm_ivs(calls, slv_price, i + 1)
            ELSE IF Abs(c.strike - slv_price) * 20 > slv_price
            THEN atm_ivs(calls, slv_price, i + 1)
            ELSE IF c.iv.some /\ c.iv.v # 0
                    /\ Tick \div 20 < c.iv.v /\ c.iv.v < 3 * Tick
            THEN <<c.iv.v>> \o atm_ivs(calls, slv_price, i + 1)
            ELSE atm_ivs(calls, slv_price, i + 1))

RECURSIVE sorted(_)
\* the values of s in ascending order
sorted(s) ==
    IF s = <<>> THEN <<>>
    ELSE With(CHOOSE i \in 1..Len(s) : \A j \in 1..Len(s) : s[i] <= s[j],
              LAMBDA i :
                <<s[i]>> \o sorted(SubSeq(s, 1, i - 1) \o SubSeq(s, i + 1, Len(s))))

\* np.median
median(s) ==
    With(sorted(s), LAMBDA o :
        IF Len(o) % 2 = 1 THEN o[(Len(o) + 1) \div 2]
        ELSE (o[Len(o) \div 2] + o[Len(o) \div 2 + 1]) \div 2)

\* the 4-tuple fetch_slv_implied_vol returns
NoSlv == [iv |-> None, price |-> None, expiry |-> None, src |-> NoSrc]

\* the part of fetch_slv_implied_vol that follows the chain request
slv_from_chain(reply, slv_price, best) ==
    IF reply.kind # "calls" THEN NoSlv
    ELSE With(atm_ivs(reply.calls, slv_price, 1), LAMBDA ivs :
            IF ivs = <<>> THEN NoSlv
            ELSE [iv |-> Some(median(ivs)), price |-> Some(slv_price),
                  expiry |-> Some(best),
                  src |-> <<"SLV options (", ToString(best), ", ",
                            ToString(Len(ivs)), " ATM strikes, T=",
                            ToString((best * 200 + 365) \div 730), "y)">>])

(***************************************************************************)
(* State: one request, from its arrival to its response                    *)
(***************************************************************************)
VARIABLES
    handler,    \* the route the request was sent to
    req,        \* the body of the request
    pc,         \* "received", then the handler's position, then "responded"
    resp,       \* the response of the handler
    calls,      \* the engine functions the handler invoked, in order
    args,       \* the arguments of the running implied_volatility call
    sigma,      \* implied_volatility: the Newton-Raphson iterate
    n_newton,   \* implied_volatility: Newton-Raphson iterations started
    sigma_low,  \* implied_volatility: lower end of the bisection bracket
    sigma_high, \* implied_volatility: upper end of the bisection bracket
    sigma_mid,  \* implied_volatility: last bisection midpoint
    n_bisect,   \* implied_volatility: bisection iterations started
    md,         \* fetch_all_market_data: the fields resolved so far
    http_log,   \* the last fetch and its outbound requests, in order
    slv,        \* fetch_slv_implied_vol: its local variables
    yahoo_session,  \* the module global _yahoo_session
    yahoo_crumb,    \* the module global _yahoo_crumb
    threads         \* the concurrent calls of _get_yahoo_session

solver == <<args, sigma, n_newton, sigma_low, sigma_high, sigma_mid, n_bisect>>

market == <<md, http_log, slv, yahoo_session, yahoo_crumb>>

vars == <<handler, req, pc, resp, calls, solver, market, threads>>

Calculate ==
    /\ handler = "calculate"
    /\ pc = "received"
    /\ \E out \in {calculate(req)} :
           /\ resp' = out.resp
           /\ calls' = out.calls
    /\ pc' = "responded"
    /\ UNCHANGED <<market, threads, handler, req, solver>>

(***************************************************************************)
(* pricing.black_scholes.implied_volatility                                *)
(***************************************************************************)
\* convergence tolerance, in units of 1e-8
tol == 1

max_iter == 100

\* iterations of the bisection fallback
bisect_iter == 200

\* np.clip
clip(x, lo, hi) == Max(lo, Min(hi, x))

lower_bound(S, K, T, r_d, r_f, option_type) ==
    IF option_type = "call"
    THEN Max(Mul(S, Exp(-Mul(r_f, T))) - Mul(K, Exp(-Mul(r_d, T))), 0)
    ELSE Max(Mul(K, Exp(-Mul(r_d, T))) - Mul(S, Exp(-Mul(r_f, T))), 0)

upper_bound(S, K, T, r_d, r_f, option_type) ==
    IF option_type = "call"
    THEN Mul(S, Exp(-Mul(r_f, T)))
    ELSE Mul(K, Exp(-Mul(r_d, T)))

\* the checks with a premium equal to the lower bound let through
iv_precondition_strict(price_market, S, K, T, r_d, r_f, option_type) ==
    IF T <= 0 THEN "Cannot compute implied volatility at or past expiry"
    ELSE IF price_market < lower_bound(S, K, T, r_d, r_f, option_type)
    THEN "Market price is below intrinsic value"
    ELSE IF price_market >= upper_bound(S, K, T, r_d, r_f, option_type)
    THEN "Market price exceeds arbitrage upper bound"
    ELSE "none"

\* the checks made before the first iteration: the error message raised,
\* or "none"
iv_precondition(price_market, S, K, T, r_d, r_f, option_type) ==
    IF T <= 0 THEN "Cannot compute implied volatility at or past expiry"
    ELSE IF price_market <= lower_bound(S, K, T, r_d, r_f, option_type)
    THEN "Market price is below intrinsic value"
    ELSE IF price_market >= upper_bound(S, K, T, r_d, r_f, option_type)
    THEN "Market price exceeds arbitrage upper bound"
    ELSE "none"

\* Brenner-Subrahmanyam initial guess
iv_seed(price_market, S, T) ==
    clip(Div(Mul(Sqrt(Div(6283185, T)), price_market), S), 10000, 5 * Scale)

\* model price minus market price at volatility s
iv_diff(a, s) ==
    gk_price(a.S, a.K, a.T, a.r_d, a.r_f, s, a.option_type).val - a.price_market

\* abs(diff) < tol: tol / 100 units, rounded up for an integer diff
converged(diff) == Abs(diff) < (tol + 99) \div 100

\* S * exp(-r_f T) * pdf(d1) * sqrt(T) at volatility s
iv_vega(a, s) ==
    Mul(Mul(Mul(a.S, Exp(-Mul(a.r_f, a.T))),
            NormPdf(D1(LogRatio(a.S, a.K).val, a.T, a.r_d, a.r_f, s))),
        Sqrt(a.T))

\* vega < 1e-12: below the last decimal of the fixed-point scale
vega_underflow(vega) == vega < 1

\* the Newton step without np.clip
newton_update_unclamped(s, diff, vega) == s - Div(diff, vega)

\* sigma -= diff / vega; sigma = np.clip(sigma, 0.001, 10.0)
newton_update(s, diff, vega) == clip(s - Div(diff, vega), 1000, 10 * Scale)

IvResult(iv, price_market) ==
    [status |-> 200, error |-> "", has_result |-> TRUE,
     implied_volatility |-> Round(iv * 100, 4),
     price_per_unit_market |-> Round(price_market, 6),
     iv |-> iv]

NoArgs == [price_market |-> 0, S |-> 0, K |-> 0, T |-> 0, r_d |-> 0,
           r_f |-> 0, option_type |-> "call"]

SolverIdle ==
    /\ args = NoArgs
    /\ sigma = 0
    /\ n_newton = 0
    /\ sigma_low = 0
    /\ sigma_high = 0
    /\ sigma_mid = 0
    /\ n_bisect = 0

(***************************************************************************)
(* app.calc_implied_vol, up to the first iteration of the solver           *)
(***************************************************************************)
iv_args(data) ==
    [price_market |-> DivInt(data.market_premium, data.notional),
     S |-> data.spot,
     K |-> data.strike,
     T |-> YearFraction(data.days, data.day_count),
     r_d |-> (data.rate_domestic * Scale) \div 100,
     r_f |-> (data.rate_foreign * Scale) \div 100,
     option_type |-> data.option_type]

CalcImpliedVol ==
    /\ handler = "implied_vol"
    /\ pc = "received"
    /\ UNCHANGED <<market, threads, handler, req, n_newton, sigma_low, sigma_high, sigma_mid,
                   n_bisect>>
    /\ IF req.parse = "bad_number" \/ req.parse = "bad_date"
       THEN /\ resp' = Except("ValueError")
            /\ pc' = "responded"
            /\ UNCHANGED <<calls, args, sigma>>
       ELSE IF req.parse = "missing_field"
       THEN /\ resp' = Except("KeyError")
            /\ pc' = "responded"
            /\ UNCHANGED <<calls, args, sigma>>
       ELSE IF req.notional = 0
       THEN /\ resp' = Except("ZeroDivisionError")
            /\ pc' = "responded"
            /\ UNCHANGED <<calls, args, sigma>>
       ELSE \E a \in {iv_args(req)} :
            \E e \in {iv_precondition(a.price_market, a.S, a.K, a.T, a.r_d,
                                      a.r_f, a.option_type)} :
                /\ calls' = <<"implied_volatility">>
                /\ args' = a
                /\ IF e # "none"
                   THEN /\ resp' = ErrorResp(400, e)
                        /\ pc' = "responded"
                        /\ UNCHANGED sigma
                   ELSE /\ sigma' = iv_seed(a.price_market, a.S, a.T)
                        /\ pc' = "newton"
                        /\ UNCHANGED resp

\* an iteration of the Newton-Raphson loop that meets the tolerance
NewtonConverged ==
    /\ pc = "newton"
    /\ n_newton < max_iter
    /\ converged(iv_diff(args, sigma))
    /\ n_newton' = n_newton + 1
    /\ resp' = IvResult(sigma, args.price_market)
    /\ pc' = "responded"
    /\ UNCHANGED <<market, threads, handler, req, calls, args, sigma, sigma_low, sigma_high,
                   sigma_mid, n_bisect>>

\* an iteration that leaves the loop because vega underflows
NewtonVegaBreak ==
    /\ pc = "newton"
    /\ n_newton < max_iter
    /\ ~converged(iv_diff(args, sigma))
    /\ vega_underflow(iv_vega(args, sigma))
    /\ n_newton' = n_newton + 1
    /\ sigma_low' = 1000
    /\ sigma_high' = 10 * Scale
    /\ pc' = "bisect"
    /\ UNCHANGED <<market, threads, handler, req, resp, calls, args, sigma, sigma_mid, n_bisect>>

\* an iteration that updates sigma
NewtonUpdate ==
    /\ pc = "newton"
    /\ n_newton < max_iter
    /\ \E diff \in {iv_diff(args, sigma)} :
       \E vega \in {iv_vega(args, sigma)} :
           /\ ~converged(diff)
           /\ ~vega_underflow(vega)
           /\ sigma' = newton_update(sigma, diff, vega)
    /\ n_newton' = n_newton + 1
    /\ UNCHANGED <<market, threads, handler, req, pc, resp, calls, args, sigma_low, sigma_high,
                   sigma_mid, n_bisect>>

\* the loop ends after max_iter iterations
NewtonExhausted ==
    /\ pc = "newton"
    /\ n_newton >= max_iter
    /\ sigma_low' = 1000
    /\ sigma_high' = 10 * Scale
    /\ pc' = "bisect"
    /\ UNCHANGED <<market, threads, handler, req, resp, calls, args, sigma, n_newton, sigma_mid,
                   n_bisect>>

\* a bisection iteration whose midpoint meets the tolerance
BisectConverged ==
    /\ pc = "bisect"
    /\ n_bisect < bisect_iter
    /\ \E mid \in {(sigma_low + sigma_high) \div 2} :
           /\ converged(iv_diff(args, mid))
           /\ sigma_mid' = mid
           /\ resp' = IvResult(mid, args.price_market)
    /\ n_bisect' = n_bisect + 1
    /\ pc' = "responded"
    /\ UNCHANGED <<market, threads, handler, req, calls, args, sigma, n_newton, sigma_low,
                   sigma_high>>

\* a bisection iteration that moves one end of the bracket to the midpoint
BisectNarrow ==
    /\ pc = "bisect"
    /\ n_bisect < bisect_iter
    /\ \E mid \in {(sigma_low + sigma_high) \div 2} :
       \E diff \in {iv_diff(args, mid)} :
           /\ ~converged(diff)
           /\ sigma_mid' = mid
           /\ IF diff > 0
              THEN sigma_high' = mid /\ UNCHANGED sigma_low
              ELSE sigma_low' = mid /\ UNCHANGED sigma_high
    /\ n_bisect' = n_bisect + 1
    /\ UNCHANGED <<market, threads, handler, req, pc, resp, calls, args, sigma, n_newton>>

\* the bisection loop ends with an error instead of the last midpoint
BisectExhausted_raises ==
    /\ pc = "bisect"
    /\ n_bisect >= bisect_iter
    /\ resp' = ErrorResp(400, "Implied volatility did not converge")
    /\ pc' = "responded"
    /\ UNCHANGED <<market, threads, handler, req, calls, solver>>

\* the bisection loop ends: the last midpoint is returned
BisectExhausted ==
    /\ pc = "bisect"
    /\ n_bisect >= bisect_iter
    /\ resp' = IvResult(sigma_mid, args.price_market)
    /\ pc' = "responded"
    /\ UNCHANGED <<market, threads, handler, req, calls, solver>>

ImpliedVolRequests ==
    [parse : {"ok"}, spot : {0, 1080000, 30000000},
     strike : {1100000, 25000000}, rate_domestic : {3}, rate_foreign : {1},
     notional : {0, 1}, option_type : OptionTypes, days : DayDiffs,
     day_count : {"ACT/365"},
     market_premium : {-10000, 0, 1, 1600, 40000, 200000, 5100000, 5600000,
                      31000000}]
    \cup
    [parse : ParseOutcomes \ {"ok"}, spot : {1080000}, strike : {1100000},
     rate_domestic : {3}, rate_foreign : {1}, notional : {1},
     option_type : {"call"}, days : {30}, day_count : {"ACT/365"},
     market_premium : {40000}]

(***************************************************************************)
(* _get_yahoo_session called from several request threads at once.  A      *)
(* thread can lose the processor where it calls out: before it builds its  *)
(* Session, while a request is on the wire, and at the log call.  The      *)
(* Session a thread creates bears the number of the thread.                *)
(***************************************************************************)
MaxThreads == 2

Threads == 1..MaxThreads

\* a call of _get_yahoo_session: its position, the session its crumb
\* request went through, and the pair it returned
NoCall == [pc |-> "idle", via |-> 0, session |-> 0, crumb |-> NoCrumb]

NewCall == [NoCall EXCEPT !.pc = "check"]

\* return value: the pair (session, crumb)
Done(call, session, crumb) ==
    [call EXCEPT !.pc = "done", !.session = session, !.crumb = crumb]

\* line 223: the cached pair is returned when both globals are set
CheckCache(t) ==
    /\ threads[t].pc = "check"
    /\ threads' = [threads EXCEPT ![t] =
                      IF yahoo_session # 0 /\ yahoo_crumb.sid # 0
                      THEN Done(@, yahoo_session, yahoo_crumb)
                      ELSE [@ EXCEPT !.pc = "create"]]
    /\ UNCHANGED <<yahoo_session, yahoo_crumb>>

\* lines 226-227: a new Session is stored in the global and the cookie
\* request is sent through the global
CreateSession(t) ==
    /\ threads[t].pc = "create"
    /\ yahoo_session' = t
    /\ threads' = [threads EXCEPT ![t].pc = "cookie"]
    /\ UNCHANGED yahoo_crumb

\* lines 227-231: the cookie request ends; the crumb request is sent
\* through whatever the global holds by now
CookieReplied(t) ==
    /\ threads[t].pc = "cookie"
    /\ \E reply \in {"ok", "timeout"} :
          threads' = [threads EXCEPT ![t] =
                         IF reply = "timeout" \/ yahoo_session = 0
                         THEN [@ EXCEPT !.pc = "failed"]
                         ELSE [@ EXCEPT !.pc = "crumb", !.via = yahoo_session]]
    /\ UNCHANGED <<yahoo_session, yahoo_crumb>>

\* lines 229-232: the crumb request ends and its body is stored
CrumbReplied(t) ==
    /\ threads[t].pc = "crumb"
    /\ \E reply \in {"body", "timeout"}, text \in CrumbTexts :
          IF reply = "timeout"
          THEN /\ threads' = [threads EXCEPT ![t].pc = "failed"]
               /\ UNCHANGED yahoo_crumb
          ELSE /\ yahoo_crumb' = Crumb(threads[t].via, text)
               /\ threads' = [threads EXCEPT ![t].pc = "log"]
    /\ UNCHANGED yahoo_session

\* lines 233-234: the crumb is logged, which fails on None, and the
\* globals are returned
ReturnSession(t) ==
    /\ threads[t].pc = "log"
    /\ threads' = [threads EXCEPT ![t] =
                      IF yahoo_crumb.sid = 0 THEN [@ EXCEPT !.pc = "failed"]
                      ELSE Done(@, yahoo_session, yahoo_crumb)]
    /\ UNCHANGED <<yahoo_session, yahoo_crumb>>

\* lines 235-239: the except clause clears both globals
SessionFailed(t) ==
    /\ threads[t].pc = "failed"
    /\ yahoo_session' = 0
    /\ yahoo_crumb' = NoCrumb
    /\ threads' = [threads EXCEPT ![t] = Done(@, 0, NoCrumb)]

CheckCacheStep ==
    /\ \E t \in Threads : CheckCache(t)
    /\ UNCHANGED <<handler, req, pc, resp, calls, solver, md, http_log, slv>>

CreateSessionStep ==
    /\ \E t \in Threads : CreateSession(t)
    /\ UNCHANGED <<handler, req, pc, resp, calls, solver, md, http_log, slv>>

CookieRepliedStep ==
    /\ \E t \in Threads : CookieReplied(t)
    /\ UNCHANGED <<handler, req, pc, resp, calls, solver, md, http_log, slv>>

CrumbRepliedStep ==
    /\ \E t \in Threads : CrumbReplied(t)
    /\ UNCHANGED <<handler, req, pc, resp, calls, solver, md, http_log, slv>>

ReturnSessionStep ==
    /\ \E t \in Threads : ReturnSession(t)
    /\ UNCHANGED <<handler, req, pc, resp, calls, solver, md, http_log, slv>>

SessionFailedStep ==
    /\ \E t \in Threads : SessionFailed(t)
    /\ UNCHANGED <<handler, req, pc, resp, calls, solver, md, http_log, slv>>

(***************************************************************************)
(* app.market_data and fetch_all_market_data, one fetch per step           *)
(***************************************************************************)
\* the locals of fetch_all_market_data before any is assigned; target is
\* target_T in days of a 365-day year
NoMd ==
    [target |-> 365, spot |-> None, spot_src |-> NoSrc,
     hist_vol |-> None, vol_src |-> NoSrc,
     rate_domestic |-> None, rd_src |-> NoSrc,
     rate_foreign |-> None, rf_src |-> NoSrc,
     slv_iv |-> None, slv_price |-> None, slv_expiry |-> None,
     slv_src |-> NoSrc]

NoSlvLocals == [session |-> 0, crumb |-> NoCrumb, slv_price |-> 0, best |-> 0]

\* the requests made by one fetch
Log(by, asked) == [by |-> by, asked |-> asked]

\* the number of a Session object created while the request is served
FreshSession == 2

MarketIdle ==
    /\ md = NoMd
    /\ http_log = Log("none", <<>>)
    /\ slv = NoSlvLocals
    /\ yahoo_session = 0
    /\ yahoo_crumb = NoCrumb
    /\ threads = [t \in Threads |-> NoCall]

\* the except clause of app.market_data
MarketFails(e) ==
    /\ resp' = ErrorResp(500, e)
    /\ pc' = "responded"

\* app.market_data up to its call of fetch_all_market_data
MarketData ==
    /\ handler = "market_data"
    /\ pc = "received"
    /\ IF req.parse = "no_body"
       THEN MarketFails("AttributeError") /\ UNCHANGED md
       ELSE /\ md' = [NoMd EXCEPT !.target =
                         IF req.dates = "valid" /\ req.days > 0
                         THEN req.days ELSE 365]
            /\ pc' = "fetch_spot"
            /\ UNCHANGED resp
    /\ UNCHANGED <<threads, handler, req, calls, solver, http_log, slv, yahoo_session,
                   yahoo_crumb>>

\* spot, spot_src = fetch_spot(base, quote)
FetchSpot ==
    /\ pc = "fetch_spot"
    /\ \E reply1 \in QuoteReplies, reply2 \in QuoteReplies :
         \E out \in {fetch_spot(req.base, req.quote, reply1, reply2)} :
            /\ http_log' = Log("fetch_spot", out.asked)
            /\ IF out.raised # "none"
               THEN MarketFails(out.raised) /\ UNCHANGED md
               ELSE /\ md' = [md EXCEPT !.spot = out.val, !.spot_src = out.src]
                    /\ pc' = "fetch_vol"
                    /\ UNCHANGED resp
    /\ UNCHANGED <<threads, handler, req, calls, solver, slv, yahoo_session, yahoo_crumb>>

\* hist_vol, vol_src = fetch_historical_volatility(base, quote)
FetchHistoricalVolatility ==
    /\ pc = "fetch_vol"
    /\ \E reply \in HistoryReplies :
         \E out \in {fetch_historical_volatility(req.base, req.quote, reply)} :
            /\ http_log' = Log("fetch_historical_volatility", out.asked)
            /\ md' = [md EXCEPT !.hist_vol = out.val, !.vol_src = out.src]
    /\ pc' = "fetch_rd"
    /\ UNCHANGED <<threads, handler, req, resp, calls, solver, slv, yahoo_session,
                   yahoo_crumb>>

\* rate_domestic, rd_src = fetch_risk_free_rate(quote)
FetchRateDomestic ==
    /\ pc = "fetch_rd"
    /\ \E replies \in RateReplies(req.quote) :
         \E out \in {fetch_risk_free_rate(req.quote, replies)} :
            /\ http_log' = Log("fetch_risk_free_rate", out.asked)
            /\ IF out.raised # "none"
               THEN MarketFails(out.raised) /\ UNCHANGED md
               ELSE /\ md' = [md EXCEPT !.rate_domestic = out.val,
                                        !.rd_src = out.src]
                    /\ pc' = "fetch_rf"
                    /\ UNCHANGED resp
    /\ UNCHANGED <<threads, handler, req, calls, solver, slv, yahoo_session, yahoo_crumb>>

\* a metal base: rate_foreign = metal_lease_rates[base]
LeaseRate ==
    /\ pc = "fetch_rf"
    /\ req.base \in DOMAIN metal_lease_rates
    /\ md' = [md EXCEPT !.rate_foreign = Some(metal_lease_rates[req.base]),
                        !.rf_src = <<"lease rate estimate">>]
    /\ http_log' = Log("metal_lease_rates", <<>>)
    /\ pc' = "fetch_slv"
    /\ UNCHANGED <<threads, handler, req, resp, calls, solver, slv, yahoo_session,
                   yahoo_crumb>>

\* any other base: rate_foreign, rf_src = fetch_risk_free_rate(base)
FetchRateForeign ==
    /\ pc = "fetch_rf"
    /\ req.base \notin DOMAIN metal_lease_rates
    /\ \E replies \in RateReplies(req.base) :
         \E out \in {fetch_risk_free_rate(req.base, replies)} :
            /\ http_log' = Log("fetch_risk_free_rate", out.asked)
            /\ IF out.raised # "none"
               THEN MarketFails(out.raised) /\ UNCHANGED md
               ELSE /\ md' = [md EXCEPT !.rate_foreign = out.val,
                                        !.rf_src = out.src]
                    /\ pc' = "fetch_slv"
                    /\ UNCHANGED resp
    /\ UNCHANGED <<threads, handler, req, calls, solver, slv, yahoo_session, yahoo_crumb>>

\* fetch_slv_implied_vol returns r: the snapshot is complete
SlvReturns(r) ==
    /\ md' = [md EXCEPT !.slv_iv = r.iv, !.slv_price = r.price,
                        !.slv_expiry = r.expiry, !.slv_src = r.src]
    /\ pc' = "return"

\* base is not silver: the SLV fields stay None
NoSlvForBase ==
    /\ pc = "fetch_slv"
    /\ req.base # "XAG"
    /\ SlvReturns(NoSlv)
    /\ http_log' = Log("none", <<>>)
    /\ UNCHANGED <<threads, handler, req, resp, calls, solver, slv, yahoo_session,
                   yahoo_crumb>>

\* fetch_slv_implied_vol: session, crumb = _get_yahoo_session()
SlvSession ==
    /\ pc = "fetch_slv"
    /\ req.base = "XAG"
    /\ \E reply \in SessionReplies :
         \E s \in {_get_yahoo_session(yahoo_session, yahoo_crumb,
                                      FreshSession, reply)} :
            /\ yahoo_session' = s.g_session
            /\ yahoo_crumb' = s.g_crumb
            /\ http_log' = Log("_get_yahoo_session", s.asked)
            /\ IF s.session = 0
               THEN SlvReturns(NoSlv) /\ UNCHANGED slv
               ELSE /\ slv' = [slv EXCEPT !.session = s.session,
                                          !.crumb = s.crumb]
                    /\ pc' = "slv_list"
                    /\ UNCHANGED md
    /\ UNCHANGED <<threads, handler, req, resp, calls, solver>>

\* fetch_slv_implied_vol: the expiry dates of SLV and the choice among them
SlvList ==
    /\ pc = "slv_list"
    /\ \E reply \in ListReplies :
         /\ http_log' = Log("fetch_slv_implied_vol", <<Asked("SLV", reply)>>)
         /\ IF reply.kind # "list"
            THEN SlvReturns(NoSlv) /\ UNCHANGED slv
            ELSE \E best \in {closest_expiry(reply.expiries,
                                             target_days(md.target), 2,
                                             reply.expiries[1])} :
                   IF best <= 0
                   THEN SlvReturns(NoSlv) /\ UNCHANGED slv
                   ELSE /\ slv' = [slv EXCEPT !.slv_price = reply.price,
                                              !.best = best]
                        /\ pc' = "slv_chain"
                        /\ UNCHANGED md
    /\ UNCHANGED <<threads, handler, req, resp, calls, solver, yahoo_session,
                   yahoo_crumb>>

\* fetch_slv_implied_vol: the option chain of the chosen expiry
SlvChain ==
    /\ pc = "slv_chain"
    /\ \E reply \in ChainReplies :
         /\ http_log' = Log("fetch_slv_implied_vol", <<Asked("SLV date", reply)>>)
         /\ SlvReturns(slv_from_chain(reply, slv.slv_price, slv.best))
    /\ UNCHANGED <<threads, handler, req, resp, calls, solver, slv, yahoo_session,
                   yahoo_crumb>>

\* result[k] = round(result[k] * 100, nd) where result[k] is not None
percent(x, nd) == IF x.some THEN Some(round(x.v * 100, nd)) ELSE None

\* app.market_data after fetch_all_market_data returned its snapshot
MarketRespond ==
    /\ pc = "return"
    /\ md' = [md EXCEPT !.hist_vol = percent(md.hist_vol, 2),
                        !.rate_domestic = percent(md.rate_domestic, 4),
                        !.rate_foreign = percent(md.rate_foreign, 4),
                        !.slv_iv = percent(md.slv_iv, 2)]
    /\ resp' = [status |-> 200, error |-> "", has_result |-> TRUE]
    /\ pc' = "responded"
    /\ UNCHANGED <<threads, handler, req, calls, solver, http_log, slv, yahoo_session,
                   yahoo_crumb>>

Pairs ==
    {<<"XAG", "EUR">>, <<"XAG", "USD">>, <<"XAU", "GBP">>, <<"EUR", "USD">>,
     <<"GBP", "SEK">>}

MarketRequests ==
    {[parse |-> "ok", base |-> p[1], quote |-> p[2], dates |-> "absent",
      days |-> 0] : p \in Pairs}
    \cup [parse : {"ok"}, base : {"XAG"}, quote : {"USD"},
          dates : {"valid", "bad_date"}, days : {-1, 24, 30}]
    \cup {[parse |-> "no_body", base |-> "XAG", quote |-> "EUR",
           dates |-> "absent", days |-> 0]}

\* the globals a request may find: nothing cached, or the session and the
\* crumb an earlier request left behind
CachedSessions ==
    {<<0, NoCrumb>>} \cup {<<1, Crumb(1, t)>> : t \in CrumbTexts}

MarketInit ==
    /\ handler = "market_data"
    /\ req \in MarketRequests
    /\ pc = "received"
    /\ resp = NoResp
    /\ calls = <<>>
    /\ SolverIdle
    /\ md = NoMd
    /\ http_log = Log("none", <<>>)
    /\ slv = NoSlvLocals
    /\ \E cached \in CachedSessions :
           /\ yahoo_session = cached[1]
           /\ yahoo_crumb = cached[2]
    /\ threads = [t \in Threads |-> NoCall]

MarketNext ==
    \/ MarketData
    \/ FetchSpot
    \/ FetchHistoricalVolatility
    \/ FetchRateDomestic
    \/ LeaseRate
    \/ FetchRateForeign
    \/ NoSlvForBase
    \/ SlvSession
    \/ SlvList
    \/ SlvChain
    \/ MarketRespond

MarketSpec == MarketInit /\ [][MarketNext]_vars

\* the market data requests of several threads have reached their call of
\* _get_yahoo_session; nothing is cached yet
SessionInit ==
    /\ handler = "market_data"
    /\ req = [parse |-> "ok", base |-> "XAG", quote |-> "EUR",
              dates |-> "absent", days |-> 0]
    /\ pc = "fetch_slv"
    /\ resp = NoResp
    /\ calls = <<>>
    /\ SolverIdle
    /\ md = NoMd
    /\ http_log = Log("none", <<>>)
    /\ slv = NoSlvLocals
    /\ yahoo_session = 0
    /\ yahoo_crumb = NoCrumb
    /\ threads = [t \in Threads |-> NewCall]

SessionNext ==
    \/ CheckCacheStep
    \/ CreateSessionStep
    \/ CookieRepliedStep
    \/ CrumbRepliedStep
    \/ ReturnSessionStep
    \/ SessionFailedStep

SessionSpec == SessionInit /\ [][SessionNext]_vars

Init ==
    /\ \/ handler = "calculate" /\ req \in CalculateRequests
       \/ handler = "implied_vol" /\ req \in ImpliedVolRequests
    /\ pc = "received"
    /\ resp = NoResp
    /\ calls = <<>>
    /\ SolverIdle
    /\ MarketIdle

Next ==
    \/ Calculate
    \/ CalcImpliedVol
    \/ NewtonConverged
    \/ NewtonVegaBreak
    \/ NewtonUpdate
    \/ NewtonExhausted
    \/ BisectConverged
    \/ BisectNarrow
    \/ BisectExhausted

Spec == Init /\ [][Next]_vars

(***************************************************************************)
(* Properties                                                              *)
(***************************************************************************)
Answered(h) == handler = h /\ pc = "responded" /\ req.parse = "ok"

\* the year fraction and decimal rates the handlers derive from the request
ReqT == YearFraction(req.days, req.day_count)

ReqRd == (req.rate_domestic * Scale) \div 100

ReqRf == (req.rate_foreign * Scale) \div 100

ReqSigma == (req.volatility * Scale) \div 100

ReqPrice(option_type) ==
    gk_price(req.spot, req.strike, ReqT, ReqRd, ReqRf, ReqSigma, option_type)

\* C1: every request to calculate with an invalid input (S <= 0, K <= 0,
\* N <= 0, a negative day difference, or sigma < 0 with T > 0) is answered
\* with an input error (400) and no result, without any engine function
\* having been invoked; likewise calc_implied_vol with a negative day
\* difference or a non-positive S, K or N never invokes implied_volatility.
C1_InvalidInputRejectedBeforeEngine ==
    /\ (Answered("calculate")
        /\ (req.spot <= 0 \/ req.strike <= 0 \/ req.notional <= 0
            \/ req.days < 0 \/ (req.volatility < 0 /\ req.days > 0)))
       => (resp.status = 400 /\ ~resp.has_result /\ calls = <<>>)
    /\ (Answered("implied_vol")
        /\ (req.spot <= 0 \/ req.strike <= 0 \/ req.notional <= 0
            \/ req.days < 0))
       => (resp.status = 400 /\ ~resp.has_result /\ calls = <<>>)

\* the no-arbitrage bounds of the running implied_volatility call
ArgsLower ==
    LET fwd == Mul(args.S, Exp(-Mul(args.r_f, args.T)))
               - Mul(args.K, Exp(-Mul(args.r_d, args.T)))
    IN  IF args.option_type = "call" THEN Max(fwd, 0) ELSE Max(-fwd, 0)

ArgsUpper ==
    IF args.option_type = "call"
    THEN Mul(args.S, Exp(-Mul(args.r_f, args.T)))
    ELSE Mul(args.K, Exp(-Mul(args.r_d, args.T)))

ArgsInBounds ==
    args.T > 0 /\ ArgsLower < args.price_market /\ args.price_market < ArgsUpper

Invoked == handler = "implied_vol" /\ calls = <<"implied_volatility">>

Rejected(msg) ==
    /\ pc = "responded"
    /\ resp.status = 400
    /\ resp.error = msg
    /\ ~resp.has_result
    /\ n_newton = 0
    /\ n_bisect = 0

C3_Bounded ==
    (Invoked /\ ArgsInBounds) =>
        /\ pc \in {"newton", "bisect", "responded"}
        /\ n_newton <= max_iter
        /\ n_bisect <= bisect_iter
        /\ pc = "newton" => n_bisect = 0
        /\ pc = "bisect"
           => (n_newton = max_iter \/ vega_underflow(iv_vega(args, sigma)))
        /\ (pc = "bisect" /\ n_bisect > 0)
           => /\ ~converged(iv_diff(args, sigma_mid))
              /\ sigma_mid \in {sigma_low, sigma_high}
        /\ pc = "responded"
           => /\ resp.status = 200
              /\ resp.has_result
              /\ IF n_bisect = 0
                 THEN resp.iv = sigma /\ converged(iv_diff(args, sigma))
                 ELSE /\ resp.iv = sigma_mid
                      /\ 1000 <= sigma_mid /\ sigma_mid <= 10 * Scale
                      /\ \/ converged(iv_diff(args, sigma_mid))
                         \/ n_bisect = bisect_iter

\* iterations the running call can still start
Remaining ==
    IF pc = "newton" THEN (max_iter - n_newton) + bisect_iter + 2
    ELSE IF pc = "bisect" THEN (bisect_iter - n_bisect) + 1
    ELSE 0

C3_Solving == Invoked /\ ArgsInBounds /\ pc # "responded"

\* C3: when T > 0 and the premium is strictly inside the bounds, the call
\* terminates with a volatility and never an error: at most max_iter Newton
\* iterations, left on convergence (returning), on vega underflow or at the
\* cap, then at most 200 bisection iterations over [0.001, 10.0], returning
\* the converged midpoint or else the last midpoint.  Termination: every step of a
\* running call lowers Remaining.
C3_SolverTerminatesWithValue ==
    /\ []C3_Bounded
    /\ [][C3_Solving => Remaining' < Remaining]_vars

C3_Witness ==
    /\ Invoked
    /\ ArgsInBounds
    /\ pc = "responded"
    /\ resp.has_result
    /\ n_newton = max_iter
    /\ n_bisect = bisect_iter
    /\ ~converged(iv_diff(args, sigma_mid))

\* C4: gk_price with T > 0 and sigma < 0 raises ValueError for every S, K,
\* r_d, r_f and option kind, and calculate answers such a request with an
\* input error (400) instead of a result.
C4_NegativeVolatilityIsInputError ==
    (Answered("calculate") /\ ReqT > 0 /\ ReqSigma < 0) =>
        /\ ReqPrice("call") = Raise("ValueError")
        /\ ReqPrice("put") = Raise("ValueError")
        /\ resp.status = 400
        /\ ~resp.has_result

C4_Witness ==
    /\ Answered("calculate")
    /\ ReqT > 0
    /\ ReqSigma < 0
    /\ req.strike = 0
    /\ resp.status = 400

\* C5: at expiry (T = 0) gk_price returns the intrinsic value, max(S-K, 0)
\* for a call and max(K-S, 0) for a put, for every S, K, sigma, r_d, r_f;
\* the value is never negative and no volatility error is raised.
C5_IntrinsicAtExpiry ==
    (Answered("calculate") /\ ReqT = 0) =>
        /\ ReqPrice("call")
           = Ok(IF req.spot > req.strike THEN req.spot - req.strike ELSE 0)
        /\ ReqPrice("put")
           = Ok(IF req.strike > req.spot THEN req.strike - req.spot ELSE 0)
        /\ ReqPrice(req.option_type).val >= 0
        /\ resp.has_result
           => resp.price_per_unit = ReqPrice(req.option_type).val

C5_Witness ==
    /\ Answered("calculate")
    /\ ReqT = 0
    /\ ReqSigma < 0
    /\ resp.has_result
    /\ resp.price_per_unit > 0

ReqGreeks(option_type) ==
    gk_greeks(req.spot, req.strike, ReqT, ReqRd, ReqRf, ReqSigma, option_type)

\* C6: at expiry (T = 0) gk_greeks returns delta +1 for a call with S > K,
\* -1 for a put with S < K and 0 otherwise (S = K included), and gamma,
\* vega, theta, rho_d and rho_f equal to 0, for every S, K, sigma, r_d, r_f.
C6_GreeksAtExpiry ==
    (Answered("calculate") /\ ReqT = 0) =>
        /\ ReqGreeks("call")
           = GreeksOf("none", FALSE,
                      IF req.spot > req.strike THEN Scale ELSE 0, 0, 0, 0, 0, 0)
        /\ ReqGreeks("put")
           = GreeksOf("none", FALSE,
                      IF req.spot < req.strike THEN -Scale ELSE 0, 0, 0, 0, 0, 0)
        /\ resp.has_result => resp.greeks_unit = ReqGreeks(req.option_type)

C6_Witness ==
    /\ Answered("calculate")
    /\ ReqT = 0
    /\ req.spot = req.strike
    /\ resp.has_result
    /\ resp.greeks_unit.delta = 0

SnapshotReturned == handler = "market_data" /\ pc = "return"

\* fetch_spot has run and every request it made timed out or was answered
\* with a status other than 200
SpotChainUnreachable ==
    /\ http_log.by = "fetch_spot"
    /\ http_log.asked # <<>>
    /\ \A i \in DOMAIN http_log.asked :
           http_log.asked[i].kind \in {"timeout", "http_error"}

\* C8: whatever the outbound calls answer (timeout, non-2xx status, missing
\* field, non-numeric price, valid value), fetch_all_market_data raises
\* nothing: a well-formed market data request is answered with a snapshot,
\* never with the error of a failed fetch
C8_NeverRaisesOnFailingSource ==
    (handler = "market_data" /\ req.parse = "ok" /\ pc = "responded")
        => (resp.status = 200 /\ resp.has_result)

\* C9: the spot fetch_spot returns is None or a value other than zero with
\* a non-empty source, and in the snapshot each rate is None or a value
\* with a non-empty source
C9_SpotAndRatesValueOrAbsent ==
    handler = "market_data" =>
        /\ md.spot.some => (md.spot.v # 0 /\ md.spot_src # NoSrc)
        /\ SnapshotReturned =>
              /\ md.rate_domestic.some => md.rd_src # NoSrc
              /\ md.rate_foreign.some => md.rf_src # NoSrc

SpotFetched == handler = "market_data" /\ http_log.by = "fetch_spot"

\* a quote request succeeded: it was answered with a number other than zero
Succeeded(a) ==
    a.kind = "price" /\ a.reply.price.t = "num" /\ a.reply.price.v # 0

\* fetch_spot returned val with provenance src
SpotReturned(val, src) ==
    pc = "fetch_vol" /\ md.spot = val /\ md.spot_src = src

\* C11 for a currency base: the direct ticker first; the inverse ticker next
\* and only when the direct quote failed; the first success is returned,
\* the inverse as its reciprocal, under the name of the ticker used
C11_CurrencyChain ==
    LET asked == http_log.asked
        ticker == req.base \o req.quote \o "=X"
        inv_ticker == req.quote \o req.base \o "=X"
    IN  /\ Len(asked) \in {1, 2}
        /\ asked[1].sym = ticker
        /\ IF Succeeded(asked[1])
           THEN /\ Len(asked) = 1
                /\ SpotReturned(Some(round(asked[1].reply.price.v, 6)),
                                <<ticker>>)
           ELSE /\ Len(asked) = 2
                /\ asked[2].sym = inv_ticker
                /\ IF Succeeded(asked[2])
                   THEN SpotReturned(
                            Some(round(TickDiv(Tick, asked[2].reply.price.v), 6)),
                            <<"1 / ", inv_ticker>>)
                   ELSE SpotReturned(None, NoSrc)

\* C11 for a metal base: the futures ticker first; the FX leg next and only
\* when the futures quote succeeded and the quote currency is not USD;
\* absent when either leg failed; the futures quote itself for USD
C11_MetalChain ==
    LET asked == http_log.asked
        ticker == _METAL_FUTURES[req.base]
        fx_ticker == req.quote \o "USD=X"
    IN  /\ Len(asked) \in {1, 2}
        /\ asked[1].sym = ticker
        /\ IF ~Succeeded(asked[1])
           THEN Len(asked) = 1 /\ SpotReturned(None, NoSrc)
           ELSE IF req.quote = "USD"
           THEN /\ Len(asked) = 1
                /\ SpotReturned(Some(round(asked[1].reply.price.v, 6)),
                                <<ticker>>)
           ELSE /\ Len(asked) = 2
                /\ asked[2].sym = fx_ticker
                /\ IF Succeeded(asked[2])
                   THEN SpotReturned(
                            Some(round(TickDiv(asked[1].reply.price.v,
                                               asked[2].reply.price.v), 6)),
                            <<ticker, " / ", fx_ticker>>)
                   ELSE SpotReturned(None, NoSrc)

\* C11: fetch_spot asks its sources in the order of the chain, each at most
\* once, stops at the first success and names in the provenance exactly
\* the tickers whose values it used
C11_SpotChainOrder ==
    SpotFetched =>
        IF req.base \in DOMAIN _METAL_FUTURES THEN C11_MetalChain
        ELSE C11_CurrencyChain

\* fetch_historical_volatility has run: http_log holds its request
VolFetched ==
    handler = "market_data" /\ http_log.by = "fetch_historical_volatility"

\* the closes the history reply held, null ones included
RawCloses ==
    IF http_log.asked[1].kind = "closes" THEN http_log.asked[1].reply.closes.n
    ELSE 0

\* the log returns of the valid closes that are below 10% in absolute value
SurvivingReturns ==
    LET c == http_log.asked[1].reply.closes
    IN  IF http_log.asked[1].kind = "closes" /\ c.n - c.none >= 1
        THEN c.n - c.none - 1 - c.eq - c.gt
        ELSE 0

RateFetched == handler = "market_data" /\ http_log.by = "fetch_risk_free_rate"

\* a rate lies within [0%, 20%]
InRange(rate) == 0 <= rate /\ rate <= Tick \div 5

\* the live candidate a reply of the ECB holds: the observation, if it is
\* a number within the range
EcbCandidate(a) ==
    IF a.kind = "value" /\ InRange(DivInt(a.reply.value, 100))
    THEN Some(DivInt(a.reply.value, 100)) ELSE None

\* the live candidate a ^IRX reply holds
IrxCandidate(a) ==
    IF a.kind = "price" /\ a.reply.price.t = "num"
       /\ InRange(DivInt(a.reply.price.v, 100))
    THEN Some(DivInt(a.reply.price.v, 100)) ELSE None

RECURSIVE LastObservation(_, _)
\* the most recent observation of the Bank of England CSV: the last line,
\* at or before the i-th, whose last column is a number
LastObservation(lines, i) ==
    IF i = 0 THEN None
    ELSE IF lines[i].parts >= 2 /\ lines[i].num THEN Some(lines[i].value)
    ELSE LastObservation(lines, i - 1)

\* the live candidate a reply of the Bank of England holds: its most recent
\* observation, if it lies within the range
BoeCandidate(a) ==
    IF a.kind # "lines" THEN None
    ELSE LET obs == LastObservation(a.reply.lines, Len(a.reply.lines))
         IN  IF obs.some /\ InRange(DivInt(obs.v, 100))
             THEN Some(DivInt(obs.v, 100)) ELSE None

\* what the chain of a currency yields from the requests asked
ChainRate(currency, asked) ==
    IF currency = "EUR"
    THEN IF EcbCandidate(asked[1]).some
         THEN [n |-> 1, val |-> EcbCandidate(asked[1]), src |-> <<"ECB ESTR">>]
         ELSE IF Len(asked) >= 2 /\ EcbCandidate(asked[2]).some
         THEN [n |-> 2, val |-> EcbCandidate(asked[2]), src |-> <<"ECB DFR">>]
         ELSE [n |-> 2, val |-> defaults("EUR"), src |-> <<"default">>]
    ELSE IF currency = "USD"
    THEN IF IrxCandidate(asked[1]).some
         THEN [n |-> 1, val |-> IrxCandidate(asked[1]), src |-> <<"Yahoo ^IRX">>]
         ELSE [n |-> 1, val |-> defaults("USD"), src |-> <<"default">>]
    ELSE IF currency = "GBP"
    THEN IF BoeCandidate(asked[1]).some
         THEN [n |-> 1, val |-> BoeCandidate(asked[1]),
               src |-> <<"BoE Bank Rate">>]
         ELSE [n |-> 1, val |-> defaults("GBP"), src |-> <<"default">>]
    ELSE [n |-> 0, val |-> defaults(currency), src |-> <<"default">>]

\* the series a currency asks, in order
ChainSeries(currency) ==
    IF currency = "EUR" THEN <<"EST", "DFR">>
    ELSE IF currency = "USD" THEN <<"^IRX">>
    ELSE IF currency = "GBP" THEN <<"IUDBEDR">>
    ELSE <<>>

\* the call for currency asked its chain in order and returned val, src
\* as the chain yields them
ChainWalked(currency, val, src) ==
    LET asked == http_log.asked
        want == ChainRate(currency, asked)
    IN  /\ Len(asked) = want.n
        /\ \A i \in DOMAIN asked : asked[i].sym = ChainSeries(currency)[i]
        /\ val = want.val
        /\ src = want.src
        /\ val.some => InRange(val.v)

\* C13: fetch_risk_free_rate walks the chain of its currency in order, takes
\* the first live candidate within [0%, 20%], moves on at a failed or
\* out-of-range one and ends at the default, flagged "default"; a metal
\* base takes the lease rate estimate and asks no source
C13_RateChain ==
    /\ RateFetched =>
          /\ pc \in {"fetch_rf", "fetch_slv"}
          /\ pc = "fetch_rf" =>
                ChainWalked(req.quote, md.rate_domestic, md.rd_src)
          /\ pc = "fetch_slv" =>
                ChainWalked(req.base, md.rate_foreign, md.rf_src)
    /\ (handler = "market_data" /\ http_log.by = "metal_lease_rates") =>
          /\ http_log.asked = <<>>
          /\ md.rate_foreign = Some(metal_lease_rates[req.base])
          /\ md.rf_src = <<"lease rate estimate">>

(***************************************************************************)
(* Properties of the cached Yahoo session                                  *)
(***************************************************************************)
\* a pair of session and crumb in which the crumb was obtained through
\* that session
SamePair(session, crumb) == session # 0 /\ crumb.sid = session

\* every finished call returned (None, None) or a session with its crumb
ReturnsArePairs ==
    \A t \in Threads :
        threads[t].pc = "done" =>
            \/ threads[t].session = 0 /\ threads[t].crumb = NoCrumb
            \/ SamePair(threads[t].session, threads[t].crumb)

\* the cache never holds the session of one initialization with the crumb
\* of another
CacheIsPair ==
    (yahoo_session # 0 /\ yahoo_crumb.sid # 0)
        => SamePair(yahoo_session, yahoo_crumb)

\* a call that fails leaves alone the pair another call has cached and
\* returned
FailureKeepsCache ==
    \A t \in Threads :
        (threads[t].pc = "failed" /\ threads'[t].pc = "done")
            => ~ \E u \in Threads \ {t} :
                    /\ threads[u].pc = "done"
                    /\ SamePair(threads[u].session, threads[u].crumb)
                    /\ threads[u].session = yahoo_session
                    /\ threads[u].crumb = yahoo_crumb

\* C14: under every interleaving of concurrent calls of _get_yahoo_session
\* each call returns (None, None) or a session with the crumb obtained
\* through it, the cached pair is never mixed, and a failing call never
\* erases a pair another call has cached
C14_ConcurrentInitBenign ==
    [](ReturnsArePairs /\ CacheIsPair) /\ [][FailureKeepsCache]_vars

\* fetch_slv_implied_vol has reported SLV absent because Yahoo answered a
\* request made with the session and crumb with a status other than 200
TokenRejected ==
    /\ handler = "market_data"
    /\ pc = "return"
    /\ http_log.by = "fetch_slv_implied_vol"
    /\ Len(http_log.asked) = 1
    /\ http_log.asked[1].kind = "http_error"

\* the cache still holds the session and crumb the request was made with
RejectedTokenCached ==
    /\ slv.session # 0
    /\ yahoo_session = slv.session
    /\ yahoo_crumb = slv.crumb

\* C15: when a request made with the cached session and crumb is answered
\* with a non-success status, the cache is cleared and the token acquired
\* again before SLV is reported absent, so the rejected token is not left
\* in the cache for a later request
C15_RejectedTokenInvalidated == TokenRejected => ~ RejectedTokenCached

\* implied_volatility has passed its checks and runs or has run its loops
InSolver == Invoked /\ (pc \in {"newton", "bisect"} \/ n_newton > 0)

\* the range every Newton update is clamped to, the ends of the bisection
InClamp(s) == 1000 <= s /\ s <= 10 * Scale

\* the range the seed is clamped to
InSeedClamp(s) == 10000 <= s /\ s <= 5 * Scale

\* gk_price accepts the volatility s for the arguments of the running call
PricedWithoutError(s) ==
    gk_price(args.S, args.K, args.T, args.r_d, args.r_f, s,
             args.option_type).err = "none"

\* the volatilities of a running call: the Newton iterate, the bracket of
\* the bisection and the midpoint the next iteration prices
C16_VolatilitiesInRange ==
    InSolver =>
        /\ InClamp(sigma)
        /\ n_newton = 0 => InSeedClamp(sigma)
        /\ (pc = "newton" /\ n_newton < max_iter) => PricedWithoutError(sigma)
        /\ (pc = "bisect" \/ n_bisect > 0)
           => /\ 1000 <= sigma_low
              /\ sigma_low <= sigma_high
              /\ sigma_high <= 10 * Scale
        /\ n_bisect > 0
           => (sigma_low <= sigma_mid /\ sigma_mid <= sigma_high)
        /\ (pc = "bisect" /\ n_bisect < bisect_iter)
           => \E mid \in {(sigma_low + sigma_high) \div 2} :
                 /\ sigma_low <= mid
                 /\ mid <= sigma_high
                 /\ PricedWithoutError(mid)
        /\ resp.error # "ValueError"

\* a bisection iteration that does not return gives the midpoint to one
\* end of the bracket and leaves the other end alone
C16_OneEndMoved ==
    (InSolver /\ pc = "bisect" /\ pc' = "bisect")
        => /\ sigma_mid' = (sigma_low + sigma_high) \div 2
           /\ \/ sigma_high' = sigma_mid' /\ sigma_low' = sigma_low
              \/ sigma_low' = sigma_mid' /\ sigma_high' = sigma_high

====
